---- MODULE Spec2Model ----
(***************************************************************************)
(* Model of methods/dlibml/src/ALLKNN.cpp: the mlpackMain pipeline (CLI    *)
(* parameters, data::Load, the staging loop, the timed call of dlib's      *)
(* find_k_nearest_neighbors) and the euclidean_distance functor.           *)
(*                                                                         *)
(*   Spec        one run of mlpackMain                                     *)
(*   SpecMetric  one invocation of euclidean_distance::operator()          *)
(*   SpecConc    several threads invoking one euclidean_distance instance  *)
(***************************************************************************)
EXTENDS Integers, Sequences, FiniteSets, TLC

(* ------------------------------ bounds --------------------------------- *)

\* Largest n_rows / n_cols of a loaded matrix.
MaxRows == 2
MaxCols == 2
\* The elements of the vectors handed to the metric range over 0..MaxVal.
MaxVal == 1
\* The CLI value of k ranges over -MaxK..MaxK.
MaxK == 3
\* Width of size_t, scaled down (2^SizeBits must exceed MaxK, as 2^64
\* exceeds every non-negative int).
SizeBits == 4
\* Longest vector handed to the metric in SpecMetric.
MaxDim == 2
\* Largest finite bound (lower, upper) of the metric in SpecMetric.
MaxBound == 2
\* Number of search threads in SpecConc.
NumThreads == 2

Values == 0..MaxVal

(* ------------------------- extended real values ------------------------ *)
(* A double produced by the metric is either +infinity or sqrt(sq) for a   *)
(* natural sq; a bound is either +infinity or the integer val.             *)

PosInf == [inf |-> TRUE, sq |-> 0]

Sqrt(n) == [inf |-> FALSE, sq |-> n]

InfBound == [inf |-> TRUE, val |-> 0]

FinBound(v) == [inf |-> FALSE, val |-> v]

\* lower <= len, for len the value x.
BoundLeqLen(l, x) ==
  IF l.inf THEN x.inf
  ELSE x.inf \/ l.val <= 0 \/ l.val * l.val <= x.sq

\* len <= upper.
LenLeqBound(x, u) ==
  IF u.inf THEN TRUE
  ELSE ~x.inf /\ u.val >= 0 /\ x.sq <= u.val * u.val

\* len < upper (used by no code path; see GateStrictUpper).
LenLessBound(x, u) ==
  IF u.inf THEN ~x.inf
  ELSE ~x.inf /\ u.val > 0 /\ x.sq < u.val * u.val

(* ------------------------- euclidean_distance -------------------------- *)

\* Minus with the right operand always read at index 0.
MinusIndexBug(a, b) == [jj \in 1..Len(a) |-> a[jj] - b[1]]

\* a - b of two column vectors of the same length.
Minus(a, b) == [jj \in 1..Len(a) |-> a[jj] - b[jj]]

RECURSIVE SumSquares(_, _)
SumSquares(v, n) == IF n = 0 THEN 0 ELSE SumSquares(v, n - 1) + v[n] * v[n]

\* dlib's length_squared: the sum of the squared elements.
LengthSquared(v) == SumSquares(v, Len(v))

\* The gate with the upper bound exclusive.
GateStrictUpper(l, u, x) ==
  IF BoundLeqLen(l, x) /\ LenLessBound(x, u) THEN x ELSE PosInf

\* if (lower <= len && len <= upper) return len; else return infinity.
Gate(l, u, x) ==
  IF BoundLeqLen(l, x) /\ LenLeqBound(x, u) THEN x ELSE PosInf

\* euclidean_distance(l, u)(a, b) on vectors of equal length.
Metric(l, u, a, b) == Gate(l, u, Sqrt(LengthSquared(Minus(a, b))))

\* The default constructor's bounds: lower(0), upper(infinity).
DefaultLower == FinBound(0)

DefaultUpper == InfBound

(* ------------------------------ state ---------------------------------- *)

VARIABLES
  \* mlpackMain
  pc,             \* position in mlpackMain
  cliK,           \* the CLI parameter "k" (an int)
  file,           \* what reference_file holds: loadable or not, and the matrix
  k,              \* size_t k
  referenceData,  \* arma::mat, column-major
  store,          \* vector storage: address 0 is m, 1.. are samples_train's elements
  samples_train,  \* the addresses of the appended samples, in order
  i, j,           \* the loop counters
  timer,          \* the "Nearest_Neighbors" timer: idle, running, stopped
  out,            \* std::vector<sample_pair> out
  searchK,        \* the neighbor count the search was invoked with
  searchCalls,    \* invocations of find_k_nearest_neighbors
  loadCalls,      \* invocations of data::Load
  failedAt,       \* the stage whose exception left mlpackMain
  \* one invocation of euclidean_distance::operator()
  ma, mb,         \* the arguments a, b
  lower, upper,   \* the members of the instance
  asserts,        \* whether the build enables DLIB_ASSERT
  mpc,            \* position in operator()
  diff,           \* a - b
  len,            \* const double len
  result,         \* the value returned
  \* concurrent invocations
  cSamples,       \* the Sample Collection the threads read
  tpc,            \* each thread's position in operator()
  targ,           \* each thread's arguments (indices into cSamples)
  lenStore,       \* the storage of each invocation's len
  tres            \* each thread's returned value

mainVars == <<pc, cliK, file, k, referenceData, store, samples_train, i, j,
              timer, out, searchK, searchCalls, loadCalls, failedAt>>

metricVars == <<ma, mb, lower, upper, asserts, mpc, diff, len, result>>

concVars == <<cSamples, tpc, targ, lenStore, tres>>

vars == <<mainVars, metricVars, concVars>>

(* ------------------------------ matrices ------------------------------- *)

\* A default-constructed arma::mat: 0 x 0.
EmptyMat == [n_rows |-> 0, n_cols |-> 0, mem |-> <<>>]

\* The entries of a loaded matrix: two values tell any two positions apart.
Entries == {0, 1}

MatsOf(R, C) ==
  {[n_rows |-> R, n_cols |-> C, mem |-> f] : f \in [1..(R * C) -> Entries]}

Matrices == UNION {MatsOf(R, C) : R \in 1..MaxRows, C \in 0..MaxCols}

\* referenceData(row, col), 0-based, in arma's column-major memory.
At(mat, row, col) == mat.mem[col * mat.n_rows + row + 1]

\* What reference_file can hold: a matrix data::Load can read, or nothing it can.
Files ==
  {[ok |-> TRUE, mat |-> M] : M \in Matrices} \cup {[ok |-> FALSE, mat |-> EmptyMat]}

(* --------------------------- mlpackMain helpers ------------------------ *)

\* An element of a vector that set_size allocated and nothing wrote yet.
Uninit == 0 - 1

Addrs == 0..MaxCols

\* The address of m.
MAddr == 0

\* size_t k = int with the value clamped to at least 1.
ToSizeTClamped(x) == IF x < 1 THEN 1 ELSE x % (2 ^ SizeBits)

\* size_t k = CLI::GetParam<int>("k"): the conversion of an int to size_t.
ToSizeT(x) == x % (2 ^ SizeBits)

\* data::Load(..., fatal = false): a failure returns false and the run goes on.
LoadNotFatal == FALSE

\* data::Load(referenceFile, referenceData, true): fatal, a failure throws.
LoadFatal == TRUE

\* The outer loop's test with the last column left out.
StageLoopCondShort(n, ncols) == n + 1 < ncols

\* i < referenceData.n_cols
StageLoopCond(n, ncols) == n < ncols

\* push_back that keeps a reference to its argument instead of a copy.
PushBackAlias(n) == MAddr

\* push_back(m) copy-constructs a new element: the storage of element n (0-based).
PushBackAddr(n) == n + 1

\* The sample at 0-based position n of samples_train.
Sample(n) == store[samples_train[n + 1]]

\* The sample pairs (dlib's sample_pair: two indices, the smaller first) a search
\* over n samples can report.
SamplePairs(n) ==
  {p \in (0..(n - 1)) \X (0..(n - 1)) : p[1] < p[2]}

(* ------------------------------ mlpackMain ----------------------------- *)

MainInit ==
  /\ pc = "get_params"
  /\ cliK \in (-MaxK)..MaxK
  /\ file \in Files
  /\ k = 0
  /\ referenceData = EmptyMat
  /\ store = [a \in Addrs |-> <<>>]
  /\ samples_train = <<>>
  /\ i = 0
  /\ j = 0
  /\ timer = "idle"
  /\ out = {}
  /\ searchK = 0
  /\ searchCalls = 0
  /\ loadCalls = 0
  /\ failedAt = "none"

\* Lines 50-52: read the parameters; k is narrowed to size_t.
GetParams ==
  /\ pc = "get_params"
  /\ k' = ToSizeT(cliK)
  /\ pc' = "load"
  /\ UNCHANGED <<cliK, file, referenceData, store, samples_train, i, j, timer,
                 out, searchK, searchCalls, loadCalls, failedAt>>
  /\ UNCHANGED <<metricVars, concVars>>

\* Line 55, the file loads.
LoadOk ==
  /\ pc = "load"
  /\ file.ok
  /\ loadCalls' = loadCalls + 1
  /\ referenceData' = file.mat
  /\ pc' = "set_size"
  /\ UNCHANGED <<cliK, file, k, store, samples_train, i, j, timer, out,
                 searchK, searchCalls, failedAt>>
  /\ UNCHANGED <<metricVars, concVars>>

\* Line 55, the file does not load: with fatal set, Log::Fatal throws.
LoadFail ==
  /\ pc = "load"
  /\ ~file.ok
  /\ loadCalls' = loadCalls + 1
  /\ IF LoadFatal
       THEN pc' = "failed" /\ failedAt' = "load"
       ELSE pc' = "set_size" /\ failedAt' = failedAt
  /\ UNCHANGED <<cliK, file, k, referenceData, store, samples_train, i, j,
                 timer, out, searchK, searchCalls>>
  /\ UNCHANGED <<metricVars, concVars>>

\* Lines 65-67: m.set_size(n_rows), i = 0.
SetSize ==
  /\ pc = "set_size"
  /\ store' = [store EXCEPT ![MAddr] = [jj \in 1..referenceData.n_rows |-> Uninit]]
  /\ i' = 0
  /\ pc' = "outer"
  /\ UNCHANGED <<cliK, file, k, referenceData, samples_train, j, timer, out,
                 searchK, searchCalls, loadCalls, failedAt>>
  /\ UNCHANGED <<metricVars, concVars>>

\* Line 67: the outer loop's test.
OuterTest ==
  /\ pc = "outer"
  /\ IF StageLoopCond(i, referenceData.n_cols)
       THEN j' = 0 /\ pc' = "inner"
       ELSE j' = j /\ pc' = "timer_start"
  /\ UNCHANGED <<cliK, file, k, referenceData, store, samples_train, i, timer,
                 out, searchK, searchCalls, loadCalls, failedAt>>
  /\ UNCHANGED <<metricVars, concVars>>

\* Lines 69-70: one round of the inner loop, m(j) = referenceData(j, i).
InnerStep ==
  /\ pc = "inner"
  /\ IF j < referenceData.n_rows
       THEN /\ store' = [store EXCEPT ![MAddr][j + 1] = At(referenceData, j, i)]
            /\ j' = j + 1
            /\ pc' = pc
       ELSE /\ store' = store
            /\ j' = j
            /\ pc' = "push"
  /\ UNCHANGED <<cliK, file, k, referenceData, samples_train, i, timer, out,
                 searchK, searchCalls, loadCalls, failedAt>>
  /\ UNCHANGED <<metricVars, concVars>>

\* Line 72 and ++i: samples_train.push_back(m).
PushBack ==
  /\ pc = "push"
  /\ LET addr == PushBackAddr(Len(samples_train))
     IN /\ store' = [store EXCEPT ![addr] = store[MAddr]]
        /\ samples_train' = Append(samples_train, addr)
  /\ i' = i + 1
  /\ pc' = "outer"
  /\ UNCHANGED <<cliK, file, k, referenceData, j, timer, out, searchK,
                 searchCalls, loadCalls, failedAt>>
  /\ UNCHANGED <<metricVars, concVars>>

\* Line 75: Timer::Start("Nearest_Neighbors").
TimerStart ==
  /\ pc = "timer_start"
  /\ timer' = "running"
  /\ pc' = "search"
  /\ UNCHANGED <<cliK, file, k, referenceData, store, samples_train, i, j, out,
                 searchK, searchCalls, loadCalls, failedAt>>
  /\ UNCHANGED <<metricVars, concVars>>

\* Line 77: find_k_nearest_neighbors returns, having appended pairs to out.
SearchReturn ==
  /\ pc = "search"
  /\ searchCalls' = searchCalls + 1
  /\ searchK' = k
  /\ out' \in SUBSET SamplePairs(Len(samples_train))
  /\ pc' = "timer_stop"
  /\ UNCHANGED <<cliK, file, k, referenceData, store, samples_train, i, j,
                 timer, loadCalls, failedAt>>
  /\ UNCHANGED <<metricVars, concVars>>

\* Line 77: find_k_nearest_neighbors throws; nothing in mlpackMain catches it.
SearchThrow ==
  /\ pc = "search"
  /\ searchCalls' = searchCalls + 1
  /\ searchK' = k
  /\ pc' = "failed"
  /\ failedAt' = "search"
  /\ UNCHANGED <<cliK, file, k, referenceData, store, samples_train, i, j,
                 timer, out, loadCalls>>
  /\ UNCHANGED <<metricVars, concVars>>

\* Line 79: Timer::Stop("Nearest_Neighbors"), and mlpackMain returns.
TimerStop ==
  /\ pc = "timer_stop"
  /\ timer' = "stopped"
  /\ pc' = "done"
  /\ UNCHANGED <<cliK, file, k, referenceData, store, samples_train, i, j, out,
                 searchK, searchCalls, loadCalls, failedAt>>
  /\ UNCHANGED <<metricVars, concVars>>

(* The variables of the other specifications, at rest. *)
MetricIdle ==
  /\ ma = <<>>
  /\ mb = <<>>
  /\ lower = DefaultLower
  /\ upper = DefaultUpper
  /\ asserts = FALSE
  /\ mpc = "idle"
  /\ diff = <<>>
  /\ len = Sqrt(0)
  /\ result = Sqrt(0)

ConcIdle ==
  /\ cSamples = <<>>
  /\ tpc = <<>>
  /\ targ = <<>>
  /\ lenStore = <<>>
  /\ tres = <<>>

Init == MainInit /\ MetricIdle /\ ConcIdle

MainNext ==
  \/ GetParams
  \/ LoadOk
  \/ LoadFail
  \/ SetSize
  \/ OuterTest
  \/ InnerStep
  \/ PushBack
  \/ TimerStart
  \/ SearchReturn
  \/ SearchThrow
  \/ TimerStop

Next == MainNext

Spec == Init /\ [][Next]_vars

(* ------------------------ properties of mlpackMain --------------------- *)

\* The staging loop (lines 67-73) has been left.
StagingFinished ==
  \/ pc \in {"timer_start", "search", "timer_stop", "done"}
  \/ pc = "failed" /\ failedAt = "search"

\* C1: every appended sample has n_rows elements and element r of sample n is
\* matrix entry (row r, column n), at every point of the run (so a later write
\* to the buffer m changes no appended sample); once the staging loop is left,
\* samples_train holds exactly n_cols samples.
C1_SampleStaging ==
  /\ \A n \in 0..(Len(samples_train) - 1) :
       /\ Len(Sample(n)) = referenceData.n_rows
       /\ \A r \in 0..(referenceData.n_rows - 1) :
            Sample(n)[r + 1] = At(referenceData, r, n)
  /\ StagingFinished => Len(samples_train) = referenceData.n_cols

\* C1 witness: the loop is done for a matrix of two or more rows and columns
\* whose first two columns differ.
C1_Witness ==
  /\ pc = "timer_start"
  /\ referenceData.n_rows >= 2
  /\ Len(samples_train) >= 2
  /\ Sample(0) # Sample(1)

\* C3: no run leaves mlpackMain (normally or by an exception) with the
\* "Nearest_Neighbors" timer started and not stopped.
C3_TimerStoppedOnExit == pc \in {"done", "failed"} => timer # "running"

\* C4: with a negative CLI k the external search is never invoked.
C4_NegativeKRejected == cliK < 0 => searchCalls = 0

\* C5: for a CLI k >= 0, size_t k equals the CLI value, the search is never
\* invoked twice and every invocation receives a count equal to the CLI value;
\* a run whose file loads is not stopped before the search (no validation), and
\* a run that is past the search has invoked it exactly once.
C5_NonNegativeKPassThrough ==
  cliK >= 0 =>
    /\ pc # "get_params" => k = cliK
    /\ searchCalls > 0 => searchCalls = 1 /\ searchK = cliK
    /\ pc \in {"timer_stop", "done"} => searchCalls = 1
    /\ file.ok /\ pc = "failed" => failedAt = "search" /\ searchCalls = 1

\* C5 witness: a completed run whose k exceeds the number of staged samples.
C5_Witness ==
  /\ pc = "done"
  /\ cliK > Len(samples_train)
  /\ Len(samples_train) > 0
  /\ searchCalls = 1
  /\ searchK = cliK

\* C7: once data::Load has failed, the run has ended at the load stage after
\* that single call: nothing is staged, the timer was never started, the
\* search was never invoked and out is empty.
C7_LoadFailureFatal ==
  ~file.ok /\ loadCalls > 0 =>
    /\ pc = "failed"
    /\ failedAt = "load"
    /\ loadCalls = 1
    /\ samples_train = <<>>
    /\ timer = "idle"
    /\ searchCalls = 0
    /\ out = {}

\* C7 witness: a run ended by the failing load.
C7_Witness == pc = "failed" /\ failedAt = "load" /\ loadCalls = 1

\* What holds at every point of a run: each stage has been reached only through
\* the stages before it.
C9_Inv ==
  /\ Len(samples_train) > 0 => loadCalls = 1
  /\ timer # "idle" =>
       /\ loadCalls = 1
       /\ StagingFinished /\ pc # "timer_start"
       /\ Len(samples_train) = referenceData.n_cols
  /\ searchCalls > 0 => timer # "idle"
  /\ timer = "stopped" => searchCalls = 1
  /\ searchCalls = 0 => out = {}

\* What holds of every step: the Sample Collection is frozen once the search is
\* invoked, only the search's step changes out, and the timer goes from idle to
\* running before the search and from running to stopped after it.
C9_Act ==
  /\ searchCalls > 0 =>
       /\ samples_train' = samples_train
       /\ \A n \in 1..Len(samples_train) :
            store'[samples_train[n]] = store[samples_train[n]]
  /\ out' # out => searchCalls' = searchCalls + 1
  /\ timer' # timer =>
       \/ timer = "idle" /\ timer' = "running" /\ searchCalls = 0
       \/ timer = "running" /\ timer' = "stopped" /\ searchCalls = 1

\* C9: load, staging of all n_cols samples, Timer::Start, the search and
\* Timer::Stop happen in this order: the timer is started only after the load
\* and the complete staging, the search is invoked only with the timer started,
\* the timer is stopped only after the search, out is empty until the search
\* and changes only in the search's step, and once the search is invoked the
\* Sample Collection never changes.
C9_StageOrdering == []C9_Inv /\ [][C9_Act]_vars

\* C9 witness: a completed run over two or more samples with pairs reported.
C9_Witness ==
  /\ pc = "done"
  /\ timer = "stopped"
  /\ Len(samples_train) >= 2
  /\ out # {}

(* --------------- one invocation of euclidean_distance ------------------ *)

\* The vectors of at most n elements.
VectorsUpTo(n) == UNION {[1..d -> Values] : d \in 0..n}

\* The values a bound can take: an integer or +infinity.
Bounds == {FinBound(v) : v \in (-1)..MaxBound} \cup {InfBound}

\* b as a - b reads it when DLIB_ASSERT is compiled out: the expression has a's
\* dimensions, so the elements of b from Len(a) on are never read and an index
\* past the end of b reads whatever g holds there.
ReadAs(b, n, g) == [jj \in 1..n |-> IF jj <= Len(b) THEN b[jj] ELSE g[jj]]

\* The outcomes of evaluating a - b: with DLIB_ASSERT enabled a dimension
\* mismatch is reported; without it the subtraction goes over a's elements.
SubtractOutcomes(a, b, checked) ==
  IF checked /\ Len(a) # Len(b)
    THEN {[err |-> TRUE, v |-> <<>>]}
    ELSE {[err |-> FALSE, v |-> Minus(a, ReadAs(b, Len(a), g))] :
            g \in [1..Len(a) -> Values]}

MetricInit ==
  /\ ma \in VectorsUpTo(MaxDim)
  /\ mb \in VectorsUpTo(MaxDim)
  /\ lower \in Bounds
  /\ upper \in Bounds
  /\ asserts \in BOOLEAN
  /\ mpc = "call"
  /\ diff = <<>>
  /\ len = Sqrt(0)
  /\ result = Sqrt(0)

(* The variables of mlpackMain, at rest. *)
MainIdle ==
  /\ pc = "idle"
  /\ cliK = 0
  /\ file = [ok |-> FALSE, mat |-> EmptyMat]
  /\ k = 0
  /\ referenceData = EmptyMat
  /\ store = [a \in Addrs |-> <<>>]
  /\ samples_train = <<>>
  /\ i = 0
  /\ j = 0
  /\ timer = "idle"
  /\ out = {}
  /\ searchK = 0
  /\ searchCalls = 0
  /\ loadCalls = 0
  /\ failedAt = "none"

\* Line 40, a - b: the difference is formed.
MetricSubtract ==
  /\ mpc = "call"
  /\ \E o \in SubtractOutcomes(ma, mb, asserts) :
       /\ ~o.err
       /\ diff' = o.v
  /\ mpc' = "subtracted"
  /\ UNCHANGED <<ma, mb, lower, upper, asserts, len, result>>
  /\ UNCHANGED <<mainVars, concVars>>

\* Line 40, a - b: DLIB_ASSERT reports the dimension mismatch.
MetricAssertFails ==
  /\ mpc = "call"
  /\ \E o \in SubtractOutcomes(ma, mb, asserts) : o.err
  /\ mpc' = "assert_failed"
  /\ UNCHANGED <<ma, mb, lower, upper, asserts, diff, len, result>>
  /\ UNCHANGED <<mainVars, concVars>>

\* Line 40: len = std::sqrt(length_squared(a - b)).
MetricLength ==
  /\ mpc = "subtracted"
  /\ len' = Sqrt(LengthSquared(diff))
  /\ mpc' = "measured"
  /\ UNCHANGED <<ma, mb, lower, upper, asserts, diff, result>>
  /\ UNCHANGED <<mainVars, concVars>>

\* Lines 41-44: the gate and the return.
MetricReturn ==
  /\ mpc = "measured"
  /\ result' = Gate(lower, upper, len)
  /\ mpc' = "returned"
  /\ UNCHANGED <<ma, mb, lower, upper, asserts, diff, len>>
  /\ UNCHANGED <<mainVars, concVars>>

InitMetric == MainIdle /\ MetricInit /\ ConcIdle

NextMetric ==
  \/ MetricSubtract
  \/ MetricAssertFails
  \/ MetricLength
  \/ MetricReturn

SpecMetric == InitMetric /\ [][NextMetric]_vars

(* ------------------- properties of euclidean_distance ------------------ *)

\* lower <= upper, for two bounds.
BoundLeq(l, u) == u.inf \/ (~l.inf /\ l.val <= u.val)

RECURSIVE SumSqDiff(_, _, _)
SumSqDiff(a, b, n) ==
  IF n = 0 THEN 0
  ELSE SumSqDiff(a, b, n - 1) + (a[n] - b[n]) * (a[n] - b[n])

\* The square of the true Euclidean distance of two vectors of equal length.
TrueDistSq(a, b) == SumSqDiff(a, b, Len(a))

\* lower <= d <= upper for the distance d = sqrt(d2).
InBounds(l, u, d2) ==
  /\ ~l.inf /\ (l.val <= 0 \/ l.val * l.val <= d2)
  /\ u.inf \/ (u.val >= 0 /\ d2 <= u.val * u.val)

\* C2: for equal-length a, b and lower <= upper, the value returned is the true
\* Euclidean distance when that lies in [lower, upper] (bounds included) and
\* +infinity otherwise; a finite value returned is never negative and never
\* outside [lower, upper].
C2_BoundedMetricResult ==
  mpc = "returned" /\ Len(ma) = Len(mb) /\ BoundLeq(lower, upper) =>
    LET d2 == TrueDistSq(ma, mb)
    IN /\ InBounds(lower, upper, d2) => result = Sqrt(d2)
       /\ ~InBounds(lower, upper, d2) => result = PosInf
       /\ ~result.inf => result.sq >= 0 /\ InBounds(lower, upper, result.sq)

\* C2 witness: a returned non-zero distance that equals the finite upper bound.
C2_Witness ==
  /\ mpc = "returned"
  /\ Len(ma) = Len(mb)
  /\ BoundLeq(lower, upper)
  /\ ~upper.inf /\ upper.val > 0
  /\ ~result.inf
  /\ result.sq = upper.val * upper.val

\* C6: an invocation with vectors of different lengths ends in a reported
\* contract violation: it never returns a distance.
C6_MismatchFailsLoudly == Len(ma) # Len(mb) => mpc # "returned"

\* C10: for equal-length a, b the value returned for (a, b) is the value of the
\* metric for (b, a), the +infinity sentinel included.
C10_MetricSymmetry ==
  mpc = "returned" /\ Len(ma) = Len(mb) =>
    result = Metric(lower, upper, mb, ma)

\* C10 witness: a finite non-zero distance returned for two different vectors.
C10_Witness ==
  /\ mpc = "returned"
  /\ Len(ma) = Len(mb)
  /\ ma # mb
  /\ ~result.inf
  /\ result.sq > 0

(* ------------- concurrent invocations of one instance ------------------ *)

Threads == 1..NumThreads

\* The Sample Collection the search threads read: the 2 x 3 matrix
\* [[0,1,2],[0,1,2]] staged, the samples (0,0), (1,1), (2,2).
ConcSamples == <<<<0, 0>>, <<1, 1>>, <<2, 2>>>>

\* The instances the threads share: the default one (0, +infinity), the one
\* mlpackMain constructs, and one with the bounds (0, 2).
ConcBounds == {<<DefaultLower, DefaultUpper>>, <<FinBound(0), FinBound(2)>>}

\* One len for all invocations (a static or a member instead of a local).
LenSlotShared(t) == 1

\* const double len is a local of the invocation: each thread has its own.
LenSlot(t) == t

InitConc ==
  /\ MainIdle
  /\ ma = <<>>
  /\ mb = <<>>
  /\ \E b \in ConcBounds : lower = b[1] /\ upper = b[2]
  /\ asserts = FALSE
  /\ mpc = "idle"
  /\ diff = <<>>
  /\ len = Sqrt(0)
  /\ result = Sqrt(0)
  /\ cSamples = ConcSamples
  /\ tpc = [t \in Threads |-> "idle"]
  /\ targ = [t \in Threads |-> <<1, 1>>]
  /\ lenStore = [t \in Threads |-> Sqrt(0)]
  /\ tres = [t \in Threads |-> Sqrt(0)]

\* The search hands two samples of the collection to the metric on thread t.
ThreadCall(t) ==
  /\ tpc[t] = "idle"
  /\ \E x \in 1..Len(cSamples), y \in 1..Len(cSamples) :
       targ' = [targ EXCEPT ![t] = <<x, y>>]
  /\ tpc' = [tpc EXCEPT ![t] = "called"]
  /\ UNCHANGED <<cSamples, lenStore, tres>>
  /\ UNCHANGED <<mainVars, metricVars>>

\* Line 40 on thread t: len = std::sqrt(length_squared(a - b)).
ThreadLength(t) ==
  /\ tpc[t] = "called"
  /\ lenStore' = [lenStore EXCEPT ![LenSlot(t)] =
       Sqrt(LengthSquared(Minus(cSamples[targ[t][1]], cSamples[targ[t][2]])))]
  /\ tpc' = [tpc EXCEPT ![t] = "measured"]
  /\ UNCHANGED <<cSamples, targ, tres>>
  /\ UNCHANGED <<mainVars, metricVars>>

\* Lines 41-44 on thread t: the gate and the return.
ThreadReturn(t) ==
  /\ tpc[t] = "measured"
  /\ tres' = [tres EXCEPT ![t] = Gate(lower, upper, lenStore[LenSlot(t)])]
  /\ tpc' = [tpc EXCEPT ![t] = "returned"]
  /\ UNCHANGED <<cSamples, targ, lenStore>>
  /\ UNCHANGED <<mainVars, metricVars>>

\* The search takes the value and thread t is free for its next evaluation.
ThreadDone(t) ==
  /\ tpc[t] = "returned"
  /\ tpc' = [tpc EXCEPT ![t] = "idle"]
  /\ targ' = [targ EXCEPT ![t] = <<1, 1>>]
  /\ tres' = [tres EXCEPT ![t] = Sqrt(0)]
  /\ UNCHANGED <<cSamples, lenStore>>
  /\ UNCHANGED <<mainVars, metricVars>>

NextConc ==
  \/ \E t \in Threads : ThreadCall(t)
  \/ \E t \in Threads : ThreadLength(t)
  \/ \E t \in Threads : ThreadReturn(t)
  \/ \E t \in Threads : ThreadDone(t)

SpecConc == InitConc /\ [][NextConc]_vars

\* Every thread that has returned holds the value the metric has, run alone,
\* for its two arguments.
C8_ReturnsAsAlone ==
  \A t \in Threads :
    tpc[t] = "returned" =>
      tres[t] = Metric(lower, upper, cSamples[targ[t][1]], cSamples[targ[t][2]])

\* C8: under every interleaving of the threads' invocations, each invocation
\* returns the value it returns when run alone on the same arguments, and no
\* step changes the bounds of the instance or the Sample Collection.
C8_ConcurrentMetricSafety ==
  []C8_ReturnsAsAlone /\ [][UNCHANGED <<lower, upper, cSamples>>]_vars

\* C8 witness: thread 1 has returned a finite distance while thread 2, in the
\* middle of its own invocation, holds a different len.
C8_Witness ==
  /\ tpc[1] = "returned"
  /\ tpc[2] = "measured"
  /\ targ[1] # targ[2]
  /\ ~tres[1].inf
  /\ lenStore[LenSlot(2)] # tres[1]

====
